---- MODULE Spec2Model ----
(***************************************************************************)
(* A model of py2cs (src/py2cs.py): the syntax-directed translation of a   *)
(* Python syntax tree into C# text.                                        *)
(*                                                                         *)
(* Every Python object is a record whose field "kind" is the name of its   *)
(* class and whose other fields are exactly the attributes instances of    *)
(* that class carry, so that `obj.attr` on an object without the attribute *)
(* is visible as "attr" \notin DOMAIN obj (Python's AttributeError).       *)
(* A Python list is a sequence.  The value of a call is a record: either   *)
(* [ok |-> TRUE, text |-> t] (the call returned t) or                      *)
(* [ok |-> FALSE, exc |-> class, msg |-> message] (the call raised).       *)
(***************************************************************************)
EXTENDS Integers, Sequences, FiniteSets, TLC

VARIABLES tree, pc, i, csharp, file, raised, status, arg, fn, ret

vars == <<tree, pc, i, csharp, file, raised, status, arg, fn, ret>>

RECURSIVE walk_statement(_), walk_statements(_), walk_expression(_)
RECURSIVE walk_expression_list(_), get_expression_return_type(_)
RECURSIVE walk_function_def(_), walk_class_def(_), walk_class_body(_)
RECURSIVE walk_return(_), walk_assign(_), walk_for(_), walk_while(_)
RECURSIVE walk_if(_), walk_bin_op(_), walk_comp_op(_), walk_unary_op(_)
RECURSIVE walk_lambda(_), walk_call(_), walk_base_class_list(_)
RECURSIVE JoinFrom(_, _, _), CompPairsFrom(_, _)

-----------------------------------------------------------------------------
(* Values of calls, and Python's left-to-right evaluation of `a + b`.      *)

None == [kind |-> "NoneType"]

Ok(t) == [ok |-> TRUE, text |-> t]

Raise(cls, m) == [ok |-> FALSE, exc |-> cls, msg |-> m]

\* `raise Exception(prefix + str(...))`
Exception(m) == Raise("Exception", m)

\* what `obj.attr` raises when obj, of class cls, has no such attribute
AttributeError(cls, attr) ==
    Raise("AttributeError",
          "'" \o cls \o "' object has no attribute '" \o attr \o "'")

\* r1 + r2: r1 is evaluated first; the first exception propagates
Cat(r1, r2) ==
    IF ~r1.ok THEN r1
    ELSE IF ~r2.ok THEN r2
    ELSE Ok(r1.text \o r2.text)

Cat3(r1, r2, r3) == Cat(Cat(r1, r2), r3)

Cat5(r1, r2, r3, r4, r5) == Cat(Cat(Cat3(r1, r2, r3), r4), r5)

Cat7(r1, r2, r3, r4, r5, r6, r7) == Cat(Cat(Cat5(r1, r2, r3, r4, r5), r6), r7)

\* sep.join(rs[k..]) for a list rs of call values computed in list order
JoinFrom(rs, sep, k) ==
    IF k > Len(rs) THEN Ok("")
    ELSE IF k = Len(rs) THEN rs[k]
    ELSE Cat3(rs[k], Ok(sep), JoinFrom(rs, sep, k + 1))

Join(rs, sep) == JoinFrom(rs, sep, 1)

\* isinstance(obj, cls); ast.Num and ast.Str are the Constant nodes whose
\* value is a number (not a bool), respectively a str
isinstance(obj, cls) ==
    CASE cls = "Num" -> obj.kind = "Constant" /\ obj.value.kind \in {"int", "float", "complex"}
      [] cls = "Str" -> obj.kind = "Constant" /\ obj.value.kind = "str"
      [] OTHER -> obj.kind = cls

BuiltinTypes == {"NoneType", "bool", "int", "str", "list"}

\* str(type(obj))
TypeStr(obj) ==
    IF obj.kind \in BuiltinTypes
    THEN "<class '" \o obj.kind \o "'>"
    ELSE "<class 'ast." \o obj.kind \o "'>"

\* str(op) of an operator object (its address is left out)
OpStr(op) == "<ast." \o op.kind \o " object>"

-----------------------------------------------------------------------------
(* The operator table.                                                     *)

get_bin_op_symbol(op) ==
    CASE op.kind = "Add" -> Ok("+")
      [] op.kind = "Sub" -> Ok("-")
      [] op.kind = "Mult" -> Ok("*")
      [] op.kind = "Div" -> Ok("/")
      [] op.kind = "Mod" -> Ok("%")
      [] op.kind = "Pow" -> Ok("**")
      [] op.kind = "LShift" -> Ok("<<")
      [] op.kind = "RShift" -> Ok(">>")
      [] op.kind = "BitOr" -> Ok("|")
      [] op.kind = "BitXor" -> Ok("^")
      [] op.kind = "BitAnd" -> Ok("&")
      [] op.kind = "FloorDiv" -> Ok("//")
      [] op.kind = "Eq" -> Ok("==")
      [] op.kind = "NotEq" -> Ok("!=")
      [] op.kind = "Lt" -> Ok("<")
      [] op.kind = "LtE" -> Ok("<=")
      [] op.kind = "Gt" -> Ok(">")
      [] op.kind = "GtE" -> Ok(">=")
      [] OTHER -> Exception("Unsupported binary operator: " \o OpStr(op))

-----------------------------------------------------------------------------
(* The expression emitters.                                                *)

walk_num(num) == Ok(ToString(num.value.v))

walk_str(str) == Ok("\"" \o str.value.v \o "\"")

walk_name(name) == Ok(name.id)

lookup_call_builtins(function_name) ==
    IF function_name = "print" THEN "Console.WriteLine"
    ELSE IF function_name = "input" THEN "Console.ReadLine"
    ELSE function_name

walk_argument_list(argument_list) ==
    Join([k \in 1..Len(argument_list.args) |->
              Ok("dynamic " \o argument_list.args[k].arg)], ", ")

walk_expression_list(expression_list) ==
    Join([k \in 1..Len(expression_list) |->
              walk_expression(expression_list[k])], ", ")

walk_bin_op(bin_op) ==
    IF "left" \notin DOMAIN bin_op THEN AttributeError(bin_op.kind, "left")
    ELSE Cat5(walk_expression(bin_op.left), Ok(" "),
              get_bin_op_symbol(bin_op.op), Ok(" "),
              walk_expression(bin_op.right))

\* [get_bin_op_symbol(ops[i]) + ' ' + walk_expression(comparators[i]) ...]
\* evaluated in index order from k on; the first exception propagates
CompPairsFrom(comp_op, k) ==
    IF k > Len(comp_op.comparators) THEN <<>>
    ELSE <<Cat3(get_bin_op_symbol(comp_op.ops[k]), Ok(" "),
                walk_expression(comp_op.comparators[k]))>>
         \o CompPairsFrom(comp_op, k + 1)

walk_comp_op(comp_op) ==
    Cat3(walk_expression(comp_op.left), Ok(" "),
         Join(CompPairsFrom(comp_op, 1), " "))

walk_unary_op(unary_op) ==
    Cat3(Ok(unary_op.op.kind), Ok(" "), walk_expression(unary_op.operand))

walk_lambda(lambda_expression) ==
    Cat3(Ok("("), walk_argument_list(lambda_expression.args),
         Cat(Ok(") => "), walk_expression(lambda_expression.body)))

walk_call(call) ==
    LET func == walk_expression(call.func)
    IN  IF ~func.ok THEN func
        ELSE Cat(Ok(lookup_call_builtins(func.text)),
                 Cat3(Ok("("), walk_expression_list(call.args), Ok(")")))

walk_expression(expression) ==
    IF isinstance(expression, "BinOp") THEN walk_bin_op(expression)
    ELSE IF isinstance(expression, "BoolOp") THEN walk_bin_op(expression)
    ELSE IF isinstance(expression, "Compare") THEN walk_comp_op(expression)
    ELSE IF isinstance(expression, "UnaryOp") THEN walk_unary_op(expression)
    ELSE IF isinstance(expression, "Lambda") THEN walk_lambda(expression)
    ELSE IF isinstance(expression, "Call") THEN walk_call(expression)
    ELSE IF isinstance(expression, "Num") THEN walk_num(expression)
    ELSE IF isinstance(expression, "Str") THEN walk_str(expression)
    ELSE IF isinstance(expression, "Name") THEN walk_name(expression)
    ELSE Exception("Unsupported expression type: " \o TypeStr(expression))

-----------------------------------------------------------------------------
(* The type inferencer.                                                    *)

\* the inferencer with `dynamic` for every node of an unlisted kind, in
\* place of the label of its `value`
get_expression_return_type_nofallback(expression) ==
    IF isinstance(expression, "Num") THEN Ok("int")
    ELSE IF isinstance(expression, "Str") THEN Ok("string")
    ELSE IF isinstance(expression, "Compare") THEN Ok("bool")
    ELSE Ok("dynamic")

get_expression_return_type(expression) ==
    IF isinstance(expression, "Num") THEN Ok("int")
    ELSE IF isinstance(expression, "Str") THEN Ok("string")
    ELSE IF isinstance(expression, "Name") THEN Ok("dynamic")
    ELSE IF isinstance(expression, "Call") THEN Ok("dynamic")
    ELSE IF isinstance(expression, "BinOp") THEN Ok("dynamic")
    ELSE IF isinstance(expression, "Compare") THEN Ok("bool")
    ELSE IF isinstance(expression, "UnaryOp") THEN Ok("dynamic")
    ELSE IF isinstance(expression, "Lambda") THEN Ok("dynamic")
    ELSE IF isinstance(expression, "FunctionDef") THEN Ok("dynamic")
    ELSE IF expression = None THEN Ok("dynamic")
    ELSE IF "value" \notin DOMAIN expression
         THEN AttributeError(expression.kind, "value")
    ELSE get_expression_return_type(expression.value)

-----------------------------------------------------------------------------
(* The statement emitters.                                                 *)

walk_statements(statements) ==
    Join([k \in 1..Len(statements) |-> walk_statement(statements[k])], "\n")

walk_function_def(function_def) ==
    Cat7(get_expression_return_type(function_def.returns), Ok(" "),
         Ok(function_def.name), Ok("("),
         walk_argument_list(function_def.args), Ok(") {\n"),
         Cat(walk_statements(function_def.body), Ok("\n}")))

\* base_class_list is the list class_def.bases, and a list has no
\* attribute `bases`
walk_base_class_list(base_class_list) == AttributeError("list", "bases")

walk_class_body(class_body) == walk_statements(class_body)

walk_class_def(class_def) ==
    Cat7(Ok("class "), Ok(class_def.name), Ok(" : "),
         walk_base_class_list(class_def.bases), Ok(" {\n"),
         walk_class_body(class_def.body), Ok("\n}"))

walk_return(return_statement) ==
    Cat3(Ok("return "), walk_expression(return_statement.value), Ok(";"))

\* walk_assign rendering every target, 'a = b = 1' style
walk_assign_alltargets(assign_statement) ==
    Cat(Cat5(get_expression_return_type(assign_statement.value), Ok(" "),
             Join([k \in 1..Len(assign_statement.targets) |->
                       walk_expression(assign_statement.targets[k])], " = "),
             Ok(" = "), walk_expression(assign_statement.value)), Ok(";\n"))

walk_assign(assign_statement) ==
    Cat(Cat5(get_expression_return_type(assign_statement.value), Ok(" "),
             walk_expression(assign_statement.targets[1]), Ok(" = "),
             walk_expression(assign_statement.value)), Ok(";\n"))

walk_for(for_statement) ==
    Cat7(Ok("for ("), walk_expression(for_statement.target), Ok(" = "),
         walk_expression(for_statement.iter), Ok(") {\n"),
         walk_statements(for_statement.body), Ok("\n}"))

walk_while(while_statement) ==
    Cat5(Ok("while ("), walk_expression(while_statement.test), Ok(") {\n"),
         walk_statements(while_statement.body), Ok("\n}"))

\* walk_if without the test for an empty else-branch
walk_if_alwayselse(if_statement) ==
    Cat7(Ok("if ("), walk_expression(if_statement.test), Ok(") {\n\t"),
         walk_statements(if_statement.body), Ok("}\n" \o "else {\n\t"),
         walk_statements(if_statement.orelse), Ok("}\n"))

walk_if(if_statement) ==
    IF Len(if_statement.orelse) = 0
    THEN Cat5(Ok("if ("), walk_expression(if_statement.test), Ok(") {\n\t"),
              walk_statements(if_statement.body), Ok("}\n"))
    ELSE Cat7(Ok("if ("), walk_expression(if_statement.test), Ok(") {\n\t"),
              walk_statements(if_statement.body), Ok("}\n" \o "else {\n\t"),
              walk_statements(if_statement.orelse), Ok("}\n"))

walk_statement(statement) ==
    IF isinstance(statement, "FunctionDef") THEN walk_function_def(statement)
    ELSE IF isinstance(statement, "ClassDef") THEN walk_class_def(statement)
    ELSE IF isinstance(statement, "Return") THEN walk_return(statement)
    ELSE IF isinstance(statement, "Assign") THEN walk_assign(statement)
    ELSE IF isinstance(statement, "For") THEN walk_for(statement)
    ELSE IF isinstance(statement, "While") THEN walk_while(statement)
    ELSE IF isinstance(statement, "If") THEN walk_if(statement)
    ELSE IF isinstance(statement, "Expr")
         THEN Cat(walk_expression(statement.value), Ok(";\n"))
    ELSE Exception("Unsupported statement type: " \o TypeStr(statement))

-----------------------------------------------------------------------------
(* Syntax trees: the nodes the parser builds, with the attributes the      *)
(* translation reads.                                                      *)

PyInt(n) == [kind |-> "int", v |-> n]

PyStr(s) == [kind |-> "str", v |-> s]

PyBool(b) == [kind |-> "bool", v |-> b]

Constant(value) == [kind |-> "Constant", value |-> value]

Name(id) == [kind |-> "Name", id |-> id]

Op(tag) == [kind |-> tag]

BinOp(left, op, right) ==
    [kind |-> "BinOp", left |-> left, op |-> op, right |-> right]

BoolOp(op, values) == [kind |-> "BoolOp", op |-> op, values |-> values]

Compare(left, ops, comparators) ==
    [kind |-> "Compare", left |-> left, ops |-> ops, comparators |-> comparators]

UnaryOp(op, operand) == [kind |-> "UnaryOp", op |-> op, operand |-> operand]

arguments(names) ==
    [kind |-> "arguments",
     args |-> [k \in 1..Len(names) |-> [kind |-> "arg", arg |-> names[k]]]]

Lambda(args, body) == [kind |-> "Lambda", args |-> args, body |-> body]

keyword(name, value) == [kind |-> "keyword", arg |-> name, value |-> value]

Call(func, args, keywords) ==
    [kind |-> "Call", func |-> func, args |-> args, keywords |-> keywords]

List(elts) == [kind |-> "List", elts |-> elts]

Attribute(value, attr) == [kind |-> "Attribute", value |-> value, attr |-> attr]

FunctionDef(name, args, body, decorator_list, returns) ==
    [kind |-> "FunctionDef", name |-> name, args |-> args, body |-> body,
     decorator_list |-> decorator_list, returns |-> returns]

ClassDef(name, bases, body) ==
    [kind |-> "ClassDef", name |-> name, bases |-> bases, body |-> body]

Return(value) == [kind |-> "Return", value |-> value]

Assign(targets, value) == [kind |-> "Assign", targets |-> targets, value |-> value]

For(target, iter, body, orelse) ==
    [kind |-> "For", target |-> target, iter |-> iter, body |-> body,
     orelse |-> orelse]

While(test, body, orelse) ==
    [kind |-> "While", test |-> test, body |-> body, orelse |-> orelse]

If(test, body, orelse) ==
    [kind |-> "If", test |-> test, body |-> body, orelse |-> orelse]

Expr(value) == [kind |-> "Expr", value |-> value]

Pass == [kind |-> "Pass"]

Try(body) == [kind |-> "Try", body |-> body]

Module(body) == [kind |-> "Module", body |-> body]

-----------------------------------------------------------------------------
(* The bounded sets of inputs.                                             *)

MaxNum == 1

MaxArgs == 2

MaxBlock == 2

MaxTop == 2

SeqsUpTo(S, n) == UNION {[1..k -> S] : k \in 0..n}

SupportedOps ==
    {"Add", "Sub", "Mult", "Div", "Mod", "Pow", "FloorDiv", "LShift", "RShift",
     "BitOr", "BitXor", "BitAnd", "Eq", "NotEq", "Lt", "LtE", "Gt", "GtE"}

BinOpTags ==
    {"Add", "Sub", "Mult", "Div", "Mod", "Pow", "FloorDiv", "LShift", "RShift",
     "BitOr", "BitXor", "BitAnd", "MatMult"}

CmpOpTags == {"Eq", "NotEq", "Lt", "LtE", "Gt", "GtE", "Is", "IsNot", "In", "NotIn"}

BoolOpTags == {"And", "Or"}

UnaryOpTags == {"Invert", "Not", "UAdd", "USub"}

OpTags == BinOpTags \cup CmpOpTags \cup BoolOpTags \cup UnaryOpTags

Ops == {Op(t) : t \in OpTags}

Atoms ==
    {Constant(PyInt(n)) : n \in 0..MaxNum}
    \cup {Constant(PyStr("hi")), Name("a"), Name("x"), Name("print"),
          Name("input"), Constant(PyBool(TRUE)), Constant(None), List(<<>>),
          Attribute(Name("a"), "b")}

Operands == {Name("a"), Constant(PyInt(1)), List(<<>>)}

ArgNames == {<<>>, <<"q">>, <<"p", "q">>}

Exprs1 ==
    {BinOp(l, Op(t), r) : l \in Operands, t \in BinOpTags, r \in Operands}
    \cup {BoolOp(Op(t), <<l, r>>) : l \in Operands, t \in BoolOpTags, r \in Operands}
    \cup {Compare(l, <<Op(t)>>, <<r>>) : l \in Operands, t \in CmpOpTags, r \in Operands}
    \cup {Compare(Name("a"), <<Op(t), Op(u)>>, <<Name("b"), r>>) :
              t \in {"Lt", "Is"}, u \in {"LtE", "In"}, r \in Operands}
    \cup {UnaryOp(Op(t), e) : t \in UnaryOpTags, e \in Atoms}
    \cup {Lambda(arguments(ns), e) : ns \in ArgNames, e \in Operands}
    \cup {Call(f, as, ks) :
              f \in {Name("print"), Name("input"), Name("a"), Attribute(Name("a"), "b")},
              as \in SeqsUpTo(Operands, MaxArgs),
              ks \in {<<>>, <<keyword("k", List(<<>>))>>}}

Nested ==
    {BinOp(Name("a"), Op("Add"), Constant(PyInt(1))),
     BinOp(Name("a"), Op("MatMult"), Constant(PyInt(1))),
     BoolOp(Op("And"), <<Name("a"), Name("b")>>),
     Compare(Name("a"), <<Op("Lt")>>, <<Name("b")>>),
     UnaryOp(Op("USub"), Name("a")),
     Lambda(arguments(<<"q">>), Name("q")),
     Call(Name("print"), <<Name("x")>>, <<>>)}

Exprs2 ==
    {BinOp(l, Op("Add"), r) : l \in Nested, r \in Nested}
    \cup {Compare(l, <<Op("Lt")>>, <<r>>) : l \in Nested, r \in Nested}
    \cup {BoolOp(Op("Or"), <<l, r>>) : l \in Nested, r \in Nested}
    \cup {UnaryOp(Op("Not"), e) : e \in Nested}
    \cup {Lambda(arguments(<<"q">>), e) : e \in Nested}
    \cup {Call(Name("f"), <<e>>, <<>>) : e \in Nested}
    \cup {Call(e, <<>>, <<>>) : e \in Nested}
    \cup {Attribute(e, "b") : e \in Nested \cup Atoms}

Exprs == Atoms \cup Exprs1 \cup Exprs2

Values == Atoms \cup Nested

TargetLists ==
    {<<Name("x")>>, <<Name("name")>>, <<Attribute(Name("a"), "b")>>,
     <<Name("x"), Name("y")>>, <<Name("x"), Attribute(Name("a"), "b")>>,
     <<Name("x"), List(<<>>), Name("y")>>}

Simple ==
    {Return(v) : v \in Values \cup {None}}
    \cup {Assign(ts, v) : ts \in TargetLists, v \in Values}
    \cup {Expr(v) : v \in Values}
    \cup {Pass, Try(<<Pass>>)}

BlockStmts ==
    {Return(Name("a")), Assign(<<Name("x")>>, Constant(PyInt(1))),
     Expr(Call(Name("print"), <<Name("x")>>, <<>>)), Try(<<Pass>>)}

Blocks == SeqsUpTo(BlockStmts, MaxBlock)

Bodies == Blocks \ {<<>>}

Tests ==
    {Compare(Name("a"), <<Op("Lt")>>, <<Name("b")>>), Name("a"),
     Constant(PyBool(TRUE))}

LoopElse == {<<>>, <<Try(<<Pass>>)>>, <<Assign(<<Name("x")>>, Constant(PyInt(1)))>>}

Annotations == {None, Name("int"), List(<<>>), Attribute(Name("a"), "b")}

Compound1 ==
    {If(t, b, o) : t \in Tests, b \in Bodies, o \in Blocks}
    \cup {While(t, b, o) : t \in Tests, b \in Bodies, o \in LoopElse}
    \cup {For(t, it, b, o) : t \in {Name("i"), List(<<>>)},
              it \in {Name("r"), List(<<>>)}, b \in Bodies, o \in LoopElse}
    \cup {FunctionDef("f", arguments(ns), b, ds, r) : ns \in ArgNames,
              b \in Bodies, ds \in {<<>>, <<List(<<>>)>>}, r \in Annotations}
    \cup {ClassDef("A", bs, b) : bs \in {<<>>, <<Name("B")>>, <<Name("B"), Name("C")>>},
              b \in Bodies}

NestedStmts ==
    {If(Compare(Name("a"), <<Op("Lt")>>, <<Name("b")>>), <<Return(Name("a"))>>, <<>>),
     If(Name("a"), <<Pass>>, <<>>),
     While(Name("a"), <<Assign(<<Name("x")>>, Constant(PyInt(1)))>>, <<Try(<<Pass>>)>>),
     FunctionDef("g", arguments(<<"q">>), <<Return(Constant(PyInt(1)))>>, <<>>, None),
     ClassDef("A", <<>>, <<Assign(<<Name("x")>>, Constant(PyInt(1)))>>),
     Assign(<<Name("x")>>, Constant(PyBool(TRUE))),
     Expr(UnaryOp(Op("USub"), Name("a")))}

Compound2 ==
    {If(Name("a"), <<s>>, o) : s \in NestedStmts, o \in {<<>>} \cup {<<u>> : u \in NestedStmts}}
    \cup {While(Name("a"), <<s, u>>, <<>>) : s \in NestedStmts, u \in NestedStmts}
    \cup {For(Name("i"), Name("r"), <<s>>, <<>>) : s \in NestedStmts}
    \cup {FunctionDef("f", arguments(<<>>), <<s>>, <<>>, None) : s \in NestedStmts \cup Simple}

Stmts == Simple \cup Compound1 \cup Compound2

TopStmts ==
    {Assign(<<Name("x")>>, Constant(PyInt(1))),
     Assign(<<Name("name")>>, Constant(PyStr("hi"))),
     Assign(<<Name("x")>>, Constant(PyBool(TRUE))),
     Assign(<<Name("a"), Attribute(Name("b"), "c")>>, Constant(PyInt(1))),
     Expr(Call(Name("print"), <<Name("x")>>, <<>>)),
     Expr(UnaryOp(Op("USub"), Name("a"))),
     Expr(BoolOp(Op("And"), <<Name("a"), Name("b")>>)),
     If(Compare(Name("a"), <<Op("Lt")>>, <<Name("b")>>), <<Return(Name("a"))>>, <<>>),
     While(Name("a"), <<Assign(<<Name("x")>>, Constant(PyInt(1)))>>, <<Try(<<Pass>>)>>),
     FunctionDef("g", arguments(<<"q">>), <<Return(Constant(PyInt(1)))>>, <<>>, None),
     ClassDef("A", <<>>, <<Assign(<<Name("x")>>, Constant(PyInt(1)))>>),
     While(Compare(Name("a"), <<Op("Lt")>>, <<Name("b")>>),
           <<Assign(<<Name("x")>>, Constant(PyInt(1))),
             Expr(Call(Name("print"), <<Name("x")>>, <<>>))>>, <<>>),
     Try(<<Pass>>)}

Trees == {Module(b) : b \in SeqsUpTo(TopStmts, MaxTop)}

StatementKinds ==
    {"FunctionDef", "ClassDef", "Return", "Assign", "For", "While", "If", "Expr",
     "Pass", "Try"}

ExpressionKinds ==
    {"BinOp", "BoolOp", "Compare", "UnaryOp", "Lambda", "Call", "Constant",
     "Name", "List", "Attribute"}

-----------------------------------------------------------------------------
(* emit_csharp and walk_tree, one step per statement of the code.  `file`  *)
(* is the output file: whether emit_csharp holds it open, and the text     *)
(* written to it so far.  `raised` is the exception in flight, or None.    *)

DriverIdle ==
    /\ tree = Module(<<>>)
    /\ pc = "idle"
    /\ i = 0
    /\ csharp = ""
    /\ file = [open |-> FALSE, data |-> ""]
    /\ raised = None
    /\ status = "none"

UnitIdle ==
    /\ arg = None
    /\ fn = "none"
    /\ ret = None

Init ==
    /\ tree \in Trees
    /\ pc = "open"
    /\ i = 0
    /\ csharp = ""
    /\ file = [open |-> FALSE, data |-> ""]
    /\ raised = None
    /\ status = "running"
    /\ UnitIdle

\* with open(filepath, 'w') as f:
OpenFile ==
    /\ pc = "open"
    /\ file' = [open |-> TRUE, data |-> ""]
    /\ pc' = "write_using"
    /\ UNCHANGED <<tree, i, csharp, raised, status, arg, fn, ret>>

\* f.write("using System;\n")
WriteUsing ==
    /\ pc = "write_using"
    /\ file' = [file EXCEPT !.data = @ \o "using System;\n"]
    /\ pc' = "write_program"
    /\ UNCHANGED <<tree, i, csharp, raised, status, arg, fn, ret>>

\* f.write("public class Program {...") and the entry of walk_tree(tree),
\* whose value is the argument of the next write
WriteProgram ==
    /\ pc = "write_program"
    /\ file' = [file EXCEPT !.data = @ \o
           "public class Program {\n\tpublic static void Main(string[] args) {\n"]
    /\ csharp' = ""
    /\ i' = 1
    /\ pc' = "walk_tree"
    /\ UNCHANGED <<tree, raised, status, arg, fn, ret>>

\* the loop of walk_tree catching the exception of a statement and going on
\* with the next one
WalkTreeStep_swallow ==
    /\ pc = "walk_tree"
    /\ i <= Len(tree.body)
    /\ LET r == walk_statement(tree.body[i])
       IN  csharp' = IF r.ok THEN csharp \o r.text ELSE csharp
    /\ i' = i + 1
    /\ UNCHANGED <<tree, pc, file, raised, status, arg, fn, ret>>

\* the loop of walk_tree putting each rendering in front of the text so far
WalkTreeStep_prepend ==
    /\ pc = "walk_tree"
    /\ i <= Len(tree.body)
    /\ LET r == walk_statement(tree.body[i])
       IN  IF r.ok
           THEN /\ csharp' = r.text \o csharp
                /\ i' = i + 1
                /\ UNCHANGED <<pc, raised>>
           ELSE /\ raised' = r
                /\ pc' = "exit_with"
                /\ UNCHANGED <<csharp, i>>
    /\ UNCHANGED <<tree, file, status, arg, fn, ret>>

\* one iteration of `for statement in tree.body`
WalkTreeStep ==
    /\ pc = "walk_tree"
    /\ i <= Len(tree.body)
    /\ LET r == walk_statement(tree.body[i])
       IN  IF r.ok
           THEN /\ csharp' = csharp \o r.text
                /\ i' = i + 1
                /\ UNCHANGED <<pc, raised>>
           ELSE /\ raised' = r
                /\ pc' = "exit_with"
                /\ UNCHANGED <<csharp, i>>
    /\ UNCHANGED <<tree, file, status, arg, fn, ret>>

\* return csharp
WalkTreeReturn ==
    /\ pc = "walk_tree"
    /\ i > Len(tree.body)
    /\ pc' = "write_body"
    /\ UNCHANGED <<tree, i, csharp, file, raised, status, arg, fn, ret>>

\* f.write(walk_tree(tree))
WriteBody ==
    /\ pc = "write_body"
    /\ file' = [file EXCEPT !.data = @ \o csharp]
    /\ pc' = "write_epilogue"
    /\ UNCHANGED <<tree, i, csharp, raised, status, arg, fn, ret>>

\* f.write("}\n}\n")
WriteEpilogue ==
    /\ pc = "write_epilogue"
    /\ file' = [file EXCEPT !.data = @ \o "}\n}\n"]
    /\ pc' = "exit_with"
    /\ UNCHANGED <<tree, i, csharp, raised, status, arg, fn, ret>>

\* the end of the with block, reached normally or by an exception: the file
\* is closed, and emit_csharp returns or the exception ends the process
ExitWith ==
    /\ pc = "exit_with"
    /\ file' = [file EXCEPT !.open = FALSE]
    /\ status' = IF raised = None THEN "returned" ELSE "failed"
    /\ pc' = "done"
    /\ UNCHANGED <<tree, i, csharp, raised, arg, fn, ret>>

Next ==
    \/ OpenFile
    \/ WriteUsing
    \/ WriteProgram
    \/ WalkTreeStep
    \/ WalkTreeReturn
    \/ WriteBody
    \/ WriteEpilogue
    \/ ExitWith

Spec == Init /\ [][Next]_vars

-----------------------------------------------------------------------------
(* The emitters called on their own: `arg` is the argument, `fn` the       *)
(* function called on it and `ret` the value of the call.                  *)

UnitArgs == Stmts \cup Exprs \cup Ops \cup {None}

InitUnit ==
    /\ DriverIdle
    /\ arg \in UnitArgs
    /\ fn = "none"
    /\ ret = None

CallWalkStatement ==
    /\ fn = "none"
    /\ arg.kind \in StatementKinds
    /\ fn' = "walk_statement"
    /\ ret' = walk_statement(arg)
    /\ UNCHANGED <<tree, pc, i, csharp, file, raised, status, arg>>

CallWalkExpression ==
    /\ fn = "none"
    /\ arg.kind \in ExpressionKinds \cup {"NoneType"}
    /\ fn' = "walk_expression"
    /\ ret' = walk_expression(arg)
    /\ UNCHANGED <<tree, pc, i, csharp, file, raised, status, arg>>

CallGetExpressionReturnType ==
    /\ fn = "none"
    /\ arg.kind \in ExpressionKinds \cup StatementKinds \cup {"NoneType"}
    /\ fn' = "get_expression_return_type"
    /\ ret' = get_expression_return_type(arg)
    /\ UNCHANGED <<tree, pc, i, csharp, file, raised, status, arg>>

CallGetBinOpSymbol ==
    /\ fn = "none"
    /\ arg.kind \in OpTags
    /\ fn' = "get_bin_op_symbol"
    /\ ret' = get_bin_op_symbol(arg)
    /\ UNCHANGED <<tree, pc, i, csharp, file, raised, status, arg>>

NextUnit ==
    \/ CallWalkStatement
    \/ CallWalkExpression
    \/ CallGetExpressionReturnType
    \/ CallGetBinOpSymbol

SpecUnit == InitUnit /\ [][NextUnit]_vars

-----------------------------------------------------------------------------
(* What the properties below speak of: the nodes below a node, the nodes   *)
(* the translation supports, and the texts it is expected to produce.      *)

SupportedStatementKinds ==
    {"FunctionDef", "ClassDef", "Return", "Assign", "For", "While", "If", "Expr"}

\* the statements and expressions directly below node n, in tree order; of
\* the targets of an assignment the first only, the one that is translated
ChildNodes(n) ==
    CASE n.kind = "FunctionDef" ->
             n.decorator_list \o (IF n.returns = None THEN <<>> ELSE <<n.returns>>) \o n.body
      [] n.kind = "ClassDef" -> n.bases \o n.body
      [] n.kind = "Return" -> <<n.value>>
      [] n.kind = "Assign" -> <<n.targets[1], n.value>>
      [] n.kind = "For" -> <<n.target, n.iter>> \o n.body \o n.orelse
      [] n.kind \in {"While", "If"} -> <<n.test>> \o n.body \o n.orelse
      [] n.kind = "Expr" -> <<n.value>>
      [] n.kind = "Try" -> n.body
      [] n.kind = "BinOp" -> <<n.left, n.right>>
      [] n.kind = "BoolOp" -> n.values
      [] n.kind = "Compare" -> <<n.left>> \o n.comparators
      [] n.kind = "UnaryOp" -> <<n.operand>>
      [] n.kind = "Lambda" -> <<n.body>>
      [] n.kind = "Call" ->
             <<n.func>> \o n.args \o [k \in 1..Len(n.keywords) |-> n.keywords[k].value]
      [] n.kind = "List" -> n.elts
      [] n.kind = "Attribute" -> <<n.value>>
      [] OTHER -> <<>>

\* the operator tags of node n that go through the operator table
TagsOf(n) ==
    CASE n.kind \in {"BinOp", "BoolOp"} -> {n.op.kind}
      [] n.kind = "Compare" -> {n.ops[k].kind : k \in 1..Len(n.ops)}
      [] OTHER -> {}

SupportedExpressionKind(n) ==
    \/ n.kind \in {"BinOp", "BoolOp", "Compare", "UnaryOp", "Lambda", "Call", "Name"}
    \/ n.kind = "Constant" /\ n.value.kind \in {"int", "str"}

RECURSIVE ContainsUnsupported(_)

\* node n, or a node anywhere below it, is of an unsupported kind or carries
\* an operator tag outside the operator table
ContainsUnsupported(n) ==
    \/ ~(n.kind \in SupportedStatementKinds \/ SupportedExpressionKind(n))
    \/ ~(TagsOf(n) \subseteq SupportedOps)
    \/ \E k \in 1..Len(ChildNodes(n)) : ContainsUnsupported(ChildNodes(n)[k])

AllSupported(nodes) == \A k \in 1..Len(nodes) : ~ContainsUnsupported(nodes[k])

UnsupportedStatement(n) ==
    Raise("Exception", "Unsupported statement type: <class 'ast." \o n.kind \o "'>")

UnsupportedExpression(n) ==
    Raise("Exception", "Unsupported expression type: <class '"
              \o (IF n.kind = "NoneType" THEN "" ELSE "ast.") \o n.kind \o "'>")

UnsupportedOperator(tag) ==
    Raise("Exception", "Unsupported binary operator: <ast." \o tag \o " object>")

RECURSIVE NamesText(_)

\* the identifiers of a list of Name nodes, separated by ", "
NamesText(names) ==
    IF Len(names) = 0 THEN ""
    ELSE IF Len(names) = 1 THEN names[1].id
    ELSE names[1].id \o ", " \o NamesText(Tail(names))

RECURSIVE BlockText(_)

\* the renderings of a list of statements, in order, one newline between two
BlockText(statements) ==
    IF Len(statements) = 0 THEN ""
    ELSE IF Len(statements) = 1 THEN walk_statement(statements[1]).text
    ELSE walk_statement(statements[1]).text \o "\n" \o BlockText(Tail(statements))

BlockOk(statements) == \A k \in 1..Len(statements) : walk_statement(statements[k]).ok

-----------------------------------------------------------------------------
\* C1: walk_statement returns a non-empty text for every statement of a
\* supported kind all of whose descendants are supported, fails with the
\* unsupported-statement error naming the kind for a statement of any other
\* kind, and renders a class definition over base identifiers as
\* 'class <name> : <bases> {\n<body>\n}'.
C1_StatementsTotal ==
    fn = "walk_statement" =>
        /\ ~ContainsUnsupported(arg) => ret.ok /\ ret.text # ""
        /\ arg.kind \notin SupportedStatementKinds => ret = UnsupportedStatement(arg)
        /\ (arg.kind = "ClassDef" /\ BlockOk(arg.body)) =>
               ret = Ok("class " \o arg.name \o " : " \o NamesText(arg.bases)
                        \o " {\n" \o BlockText(arg.body) \o "\n}")

\* C2: walk_expression returns a text for every expression of a supported
\* kind all of whose descendants and operator tags are supported, fails with
\* the unsupported-expression error naming the kind for an expression of any
\* other kind, and a BoolOp over supported operands is rendered or rejected
\* with the unsupported-operator error, never aborted otherwise.
C2_ExpressionsTotal ==
    fn = "walk_expression" =>
        /\ ~ContainsUnsupported(arg) => ret.ok
        /\ ~SupportedExpressionKind(arg) => ret = UnsupportedExpression(arg)
        /\ (arg.kind = "BoolOp" /\ AllSupported(arg.values)) =>
               ret.ok \/ ret = UnsupportedOperator(arg.op.kind)


Prologue ==
    "using System;\n"
        \o "public class Program {\n\tpublic static void Main(string[] args) {\n"

Epilogue == "}\n}\n"

\* some top-level statement of the tree cannot be translated
TreeFails == ~BlockOk(tree.body)

\* C3: the epilogue is written only after walk_tree has returned for the
\* whole tree, and on a failing run the file never holds more than the
\* prologue: the run ends failed, the file closed with the prologue only.
C3_NoFinalizeOnFailure ==
    /\ file.data = Prologue \o csharp \o Epilogue =>
           i = Len(tree.body) + 1 /\ raised = None /\ BlockOk(tree.body)
    /\ TreeFails => file.data \in {"", "using System;\n", Prologue}
    /\ (TreeFails /\ pc = "done") =>
           status = "failed" /\ raised # None /\ ~file.open /\ file.data = Prologue

\* C3 witness: a run that failed after it had translated a statement, the
\* file closed with the prologue alone
C3_Witness ==
    /\ pc = "done"
    /\ status = "failed"
    /\ csharp # ""
    /\ file = [open |-> FALSE, data |-> Prologue]

ErrorKindNames == StatementKinds \cup ExpressionKinds

\* r is one of the three errors of the translation, naming a kind
IsTranslationError(r) ==
    /\ r.exc = "Exception"
    /\ \/ \E k \in ErrorKindNames \cup {"NoneType"} :
              \/ r.msg = "Unsupported statement type: <class 'ast." \o k \o "'>"
              \/ r.msg = "Unsupported expression type: <class 'ast." \o k \o "'>"
              \/ r.msg = "Unsupported expression type: <class '" \o k \o "'>"
       \/ \E t \in OpTags : r = UnsupportedOperator(t)

\* the two failures of C1 and C2: a class definition, a boolean operation
CrashOfClassOrBoolOp(r) ==
    r \in {Raise("AttributeError", "'list' object has no attribute 'bases'"),
           Raise("AttributeError", "'BoolOp' object has no attribute 'left'")}

\* C4: every failure of walk_tree is an unsupported-statement, -expression
\* or -operator error carrying the offending kind (the failures of class
\* definitions and of boolean operations, which C1 and C2 are about, set
\* aside).
C4_ThreeErrorsOnly ==
    raised # None => IsTranslationError(raised) \/ CrashOfClassOrBoolOp(raised)

\* C5: a tree with an unsupported statement or expression at any position,
\* or an operator outside the table on a binary, boolean or comparison node
\* at any position, never gets through walk_tree: no text is returned for
\* it.
C5_FailFast ==
    ~AllSupported(tree.body) =>
        pc \notin {"write_body", "write_epilogue"} /\ status # "returned"

RECURSIVE ConcatText(_)

\* the renderings of a list of statements, concatenated in order
ConcatText(statements) ==
    IF Len(statements) = 0 THEN ""
    ELSE walk_statement(statements[1]).text \o ConcatText(Tail(statements))

\* C9: on success the file holds the prologue, the renderings of the
\* top-level statements in input order, each once, and the epilogue; and a
\* block is rendered as its statements' renderings in input order with one
\* newline between two.
C9_OutputInOrder ==
    /\ status = "returned" =>
           file.data = Prologue \o ConcatText(tree.body) \o Epilogue
    /\ \A k \in 1..Len(tree.body) :
           LET s == tree.body[k]
           IN  (s.kind = "While" /\ walk_statement(s).ok) =>
                   walk_statement(s).text
                       = "while (" \o walk_expression(s.test).text \o ") {\n"
                             \o BlockText(s.body) \o "\n}"

\* C9 witness: a finished run over two different statements, one of them
\* a loop over a block of two statements
C9_Witness ==
    /\ status = "returned"
    /\ Len(tree.body) = 2
    /\ tree.body[1].kind = "While"
    /\ Len(tree.body[1].body) = 2
    /\ tree.body[2].kind = "Assign"


\* the symbol of each supported operator tag
SymbolOf ==
    [t \in SupportedOps |->
        CASE t = "Add" -> "+" [] t = "Sub" -> "-" [] t = "Mult" -> "*"
          [] t = "Div" -> "/" [] t = "Mod" -> "%" [] t = "Pow" -> "**"
          [] t = "FloorDiv" -> "//" [] t = "LShift" -> "<<" [] t = "RShift" -> ">>"
          [] t = "BitOr" -> "|" [] t = "BitXor" -> "^" [] t = "BitAnd" -> "&"
          [] t = "Eq" -> "==" [] t = "NotEq" -> "!=" [] t = "Lt" -> "<"
          [] t = "LtE" -> "<=" [] t = "Gt" -> ">" [] t = "GtE" -> ">="]

\* C6: get_bin_op_symbol gives each of the eighteen supported tags its
\* symbol and fails with the unsupported-operator error on any other tag,
\* and the translation of a BinOp, BoolOp, Compare or UnaryOp node with a
\* tag outside the eighteen fails instead of passing the tag through.
C6_OperatorTable ==
    /\ fn = "get_bin_op_symbol" =>
           ret = IF arg.kind \in SupportedOps THEN Ok(SymbolOf[arg.kind])
                 ELSE UnsupportedOperator(arg.kind)
    /\ (/\ fn = "walk_expression"
        /\ \/ ~(TagsOf(arg) \subseteq SupportedOps)
           \/ arg.kind = "UnaryOp" /\ arg.op.kind \notin SupportedOps) => ~ret.ok

Labels == {"int", "string", "bool", "dynamic"}

DynamicKinds == {"Name", "Call", "BinOp", "UnaryOp", "Lambda", "FunctionDef", "NoneType"}

RECURSIVE LabelOf(_)

\* the label the rules give node n: by its kind, or else that of the node
\* in its attribute `value`; "none" where the rules give none
LabelOf(n) ==
    IF n.kind = "Constant" /\ n.value.kind = "int" THEN "int"
    ELSE IF n.kind = "Constant" /\ n.value.kind = "str" THEN "string"
    ELSE IF n.kind = "Compare" THEN "bool"
    ELSE IF n.kind \in DynamicKinds THEN "dynamic"
    ELSE IF "value" \in DOMAIN n THEN LabelOf(n.value)
    ELSE "none"

\* C7: get_expression_return_type returns only labels of the closed set;
\* Num gives int, Str string, Compare bool, each of Name, Call, BinOp,
\* UnaryOp, Lambda, FunctionDef and the absent expression dynamic, a node
\* of another kind the label of the node in its `value`; and a function
\* definition without annotation is rendered with return type dynamic
\* whatever its body is.
C7_TypeInference ==
    /\ fn = "get_expression_return_type" =>
           /\ ret.ok => ret.text \in Labels /\ ret.text = LabelOf(arg)
           /\ LabelOf(arg) \in Labels => ret.ok
    /\ (fn = "walk_statement" /\ arg.kind = "FunctionDef" /\ arg.returns = None
            /\ ret.ok) =>
           ret.text = "dynamic " \o arg.name \o "("
                          \o walk_argument_list(arg.args).text \o ") {\n"
                          \o BlockText(arg.body) \o "\n}"

\* C7 witness: the label of a node of an unlisted kind, taken from the
\* literal in its `value`
C7_Witness ==
    /\ fn = "get_expression_return_type"
    /\ arg.kind = "Attribute"
    /\ arg.value.kind = "Constant"
    /\ ret = Ok("int")

\* the Assign statements whose first target and value are both rendered
RenderedAssign(s) ==
    /\ s.kind = "Assign"
    /\ walk_expression(s.targets[1]).ok
    /\ walk_expression(s.value).ok

\* C8 as stated: walk_assign returns exactly
\* '<inferred type> <first target> = <value>;'.
C8_AssignText_Original ==
    (fn = "walk_statement" /\ RenderedAssign(arg)) =>
        ret = Ok(LabelOf(arg.value) \o " " \o walk_expression(arg.targets[1]).text
                     \o " = " \o walk_expression(arg.value).text \o ";")

\* C8, amended: walk_assign returns exactly
\* '<inferred type> <first target> = <value>;' followed by a newline, so
\* 'x = 1' gives 'int x = 1;\n' and 'name = "hi"' gives
\* 'string name = "hi";\n'; the targets after the first contribute no text
\* and are never examined.
C8_AssignText ==
    (fn = "walk_statement" /\ RenderedAssign(arg)) =>
        /\ ret = Ok(LabelOf(arg.value) \o " " \o walk_expression(arg.targets[1]).text
                        \o " = " \o walk_expression(arg.value).text \o ";\n")
        /\ arg.targets[1] = Name("x") /\ arg.value = Constant(PyInt(1)) =>
               ret = Ok("int x = 1;\n")
        /\ arg.targets[1] = Name("name") /\ arg.value = Constant(PyStr("hi")) =>
               ret = Ok("string name = \"hi\";\n")

\* C8 witness: an assignment to several targets, the second unsupported,
\* rendered from the first alone
C8_Witness ==
    /\ fn = "walk_statement"
    /\ arg = Assign(<<Name("x"), Attribute(Name("a"), "b")>>, Constant(PyInt(1)))
    /\ ret = Ok("int x = 1;\n")

\* C10: walk_if returns 'if (' + test + ') {\n\t' + body + '}\n', followed
\* by 'else {\n\t' + orelse + '}\n' exactly when the else-branch is not
\* empty; 'if a < b: return a' gives 'if (a < b) {\n\treturn a;}\n'.
C10_IfText ==
    (/\ fn = "walk_statement"
     /\ arg.kind = "If"
     /\ walk_expression(arg.test).ok
     /\ BlockOk(arg.body)
     /\ BlockOk(arg.orelse)) =>
        /\ ret = Ok("if (" \o walk_expression(arg.test).text \o ") {\n\t"
                        \o BlockText(arg.body) \o "}\n"
                        \o (IF Len(arg.orelse) = 0 THEN ""
                            ELSE "else {\n\t" \o BlockText(arg.orelse) \o "}\n"))
        /\ arg = If(Compare(Name("a"), <<Op("Lt")>>, <<Name("b")>>),
                    <<Return(Name("a"))>>, <<>>) =>
               ret = Ok("if (a < b) {\n\treturn a;}\n")

\* C10 witness: a conditional with an else-branch, rendered
C10_Witness ==
    /\ fn = "walk_statement"
    /\ arg.kind = "If"
    /\ Len(arg.orelse) = 2
    /\ ret.ok

====
